---- MODULE Spec2Model ----
(***************************************************************************)
(* ArbitrationAdapter (EIP-712 ruling authentication, nonce replay         *)
(* protection, arbitrator rotation).                                       *)
(*                                                                         *)
(* One contract instance.  Every external call is one transaction, hence   *)
(* one atomic step; a revert restores the whole contract state and hands   *)
(* only the revert reason back to the caller.  The variable `last' holds   *)
(* what the caller of the latest transaction observes (its arguments and   *)
(* its return value or revert reason).                                     *)
(*                                                                         *)
(* keccak256 and ECDSA are idealised: the hash is collision free (a tagged *)
(* copy of its pre-image) and a signature recovers to its producer exactly *)
(* for the digest it was produced over.                                    *)
(*                                                                         *)
(* useApi (frontend/lib/hooks.js) is modelled beside it, with variables of *)
(* its own: one mounted component, its renders and effects, and the        *)
(* requests it has started.  The two parts share no state.                 *)
(***************************************************************************)
EXTENDS Integers, Sequences, FiniteSets, TLC

VARIABLES arbitrator, usedNonces, log, now, last, mempool, seen

\* useApi: the three useState values, the endpoint prop and the options of
\* the latest render, what getToken() returns, whether the component is
\* mounted, the requests started so far, and the effect: the request whose
\* AbortController the effect's cleanup holds, and whether an effect run is due
VARIABLES data, loading, error, endpoint, options, token, mounted, requests, effect

hook == <<data, loading, error, endpoint, options, token, mounted, requests, effect>>

\* the contract's storage, its event log, the block clock and the caller's view
contract == <<arbitrator, usedNonces, log, now, last>>

\* mempool: submitRuling transactions that were sent and wait to be mined
\* seen: one earlier call kept for comparison with later ones
vars == <<arbitrator, usedNonces, log, now, last, mempool, seen,
          data, loading, error, endpoint, options, token, mounted, requests, effect>>

(* ------------------------------ bounds --------------------------------- *)

\* uint256 is scaled down to WordBits bits so that checked addition can overflow
WordBits == 14
MaxUint == (2 ^ WordBits) - 1

\* block.timestamp of the deployment block
T0 == 1000

\* events one run may emit
MaxLog == 2

(* ----------------------------- constants ------------------------------- *)

FreshnessWindow == 3600

NAME == "EscrowArbitration"
VERSION == "1"
RULING_TYPEHASH == "Ruling(bytes32 orderId,uint8 ruling,uint256 timestamp,uint256 nonce)"

ZeroAddress == "0x0"
\* key holders: they sign rulings and send transactions
Identities == {"A", "B"}
Addresses == Identities \cup {ZeroAddress}
\* third parties that relay signed rulings
Relayers == {"R"}
\* what ecrecover yields for a digest the signature was not produced over
StrayAddress == "stray"

\* constructor argument _arbitrator
InitialArbitrator == "A"

(* ------------------------------- inputs -------------------------------- *)

OrderIds == {1, 2}
Rulings == {0, 1}
Nonces == {1, 2}
IssuedAts == {T0, MaxUint - FreshnessWindow, MaxUint}
ClockTimes == {T0, T0 + FreshnessWindow, T0 + FreshnessWindow + 1}
SigVariants == {1, 2}

BasePayload == [orderId |-> 1, ruling |-> 0, timestamp |-> T0, nonce |-> 1]

FieldDistance(p, q) ==
    (IF p.orderId = q.orderId THEN 0 ELSE 1) + (IF p.ruling = q.ruling THEN 0 ELSE 1)
    + (IF p.timestamp = q.timestamp THEN 0 ELSE 1) + (IF p.nonce = q.nonce THEN 0 ELSE 1)

\* the base ruling and every ruling that differs from it in one field
Payloads ==
    {p \in [orderId : OrderIds, ruling : Rulings, timestamp : IssuedAts, nonce : Nonces] :
        FieldDistance(p, BasePayload) <= 1}

(* ------------------------- hashing and signing ------------------------- *)

Keccak256(preimage) == <<"keccak256", preimage>>

ThisDomain == [name |-> NAME, version |-> VERSION, chainId |-> 1, verifyingContract |-> "adapter"]
OtherDomain == [name |-> NAME, version |-> VERSION, chainId |-> 1, verifyingContract |-> "other"]

\* variant: the separator covers the protocol name and version only
DomainSeparator_NameVersionOnly(dom) ==
    Keccak256(<<"EIP712Domain", dom.name, dom.version>>)

DomainSeparator(dom) ==
    Keccak256(<<"EIP712Domain", dom.name, dom.version, dom.chainId, dom.verifyingContract>>)

\* variant: the ruling code is left out of the signed struct
StructHash_NoRuling(p) == Keccak256(<<RULING_TYPEHASH, p.orderId, p.timestamp, p.nonce>>)

StructHash(p) == Keccak256(<<RULING_TYPEHASH, p.orderId, p.ruling, p.timestamp, p.nonce>>)

TypedDataHash(dom, structHash) == Keccak256(<<"1901", DomainSeparator(dom), structHash>>)

HashTypedDataV4(structHash) == TypedDataHash(ThisDomain, structHash)

\* a signature of identity id over digest; k tells apart two signatures of one signer over one digest
Sign(id, digest, k) == [wellFormed |-> TRUE, signer |-> id, digest |-> digest, k |-> k]

\* bytes that are no 65-byte (r, s, v) encoding
Malformed == [wellFormed |-> FALSE, signer |-> "none", digest |-> <<"none">>, k |-> 0]

ValidSig(id, p, k) == Sign(id, HashTypedDataV4(StructHash(p)), k)

\* the signatures a call carrying payload p is made with: a signature of each identity
\* over p, a second signature of the first arbitrator over p, one made for another
\* deployment, one made over the base ruling, and bytes that are no signature
SigsFor(p) ==
    {ValidSig(id, p, 1) : id \in Identities}
    \cup {ValidSig(InitialArbitrator, p, k) : k \in SigVariants}
    \cup {Sign(InitialArbitrator, TypedDataHash(OtherDomain, StructHash(p)), 1)}
    \cup {ValidSig(InitialArbitrator, BasePayload, 1)}
    \cup {Malformed}

\* the (payload, signature) arguments a call is made with
Calls == {c \in Payloads \X UNION {SigsFor(p) : p \in Payloads} : c[2] \in SigsFor(c[1])}

\* variant: the recovered signer is not bound to the digest
Recover_IgnoresDigest(digest, sig) == sig.signer

Recover(digest, sig) == IF sig.digest = digest THEN sig.signer ELSE StrayAddress

(* --------------------------- call outcomes ----------------------------- *)

Accepted == "Accepted"
ReturnsTrue == "true"
ReturnsFalse == "false"
Done == "ok"
\* revert reasons of the require statements
RevertExpired == "signature expired"
RevertBadSignature == "bad signature"
RevertNonceUsed == "nonce used"
RevertOnlyArbitrator == "only arbitrator"
\* Solidity 0.8 checked arithmetic: Panic(0x11)
PanicOverflow == "Panic(0x11)"
\* ECDSA.recover reverts on bytes that are no signature
RevertECDSA == "ECDSAInvalidSignature"

\* the error kinds a caller tells apart
SignatureExpired == RevertExpired
InvalidSignature == RevertBadSignature
NonceAlreadyUsed == RevertNonceUsed
Unauthorized == RevertOnlyArbitrator

NoPayload == [orderId |-> 0, ruling |-> 0, timestamp |-> 0, nonce |-> 0]

RulingSubmitted(p, submitter) ==
    [event |-> "RulingSubmitted", orderId |-> p.orderId, ruling |-> p.ruling,
     timestamp |-> p.timestamp, nonce |-> p.nonce, submitter |-> submitter]

ArbitratorChanged(a) == [event |-> "ArbitratorChanged", newArbitrator |-> a]

(* ----------------------------- operations ------------------------------ *)

\* variant: the replay key leaves the nonce out
ReplayKey_OrderOnly(orderId, nonce) == Keccak256(<<orderId>>)

\* keccak256(abi.encodePacked(orderId, nonce)): two 32-byte words, concatenated
ReplayKey(orderId, nonce) == Keccak256(<<orderId, nonce>>)

\* variant: a burned nonce makes the verification answer false
VerifyRulingSignature_ChecksNonce(p, sig) ==
    IF p.timestamp + FreshnessWindow > MaxUint THEN PanicOverflow
    ELSE IF ~(now <= p.timestamp + FreshnessWindow) THEN RevertExpired
    ELSE IF ~sig.wellFormed THEN RevertECDSA
    ELSE IF /\ Recover(HashTypedDataV4(StructHash(p)), sig) = arbitrator
            /\ Keccak256(<<p.orderId, p.nonce>>) \notin usedNonces
         THEN ReturnsTrue
         ELSE ReturnsFalse

\* variant: any key holder's signature passes
VerifyRulingSignature_AnySigner(p, sig) ==
    IF p.timestamp + FreshnessWindow > MaxUint THEN PanicOverflow
    ELSE IF ~(now <= p.timestamp + FreshnessWindow) THEN RevertExpired
    ELSE IF ~sig.wellFormed THEN RevertECDSA
    ELSE IF Recover(HashTypedDataV4(StructHash(p)), sig) \in Identities THEN ReturnsTrue
    ELSE ReturnsFalse

\* variant: no freshness check
VerifyRulingSignature_NoExpiry(p, sig) ==
    IF ~sig.wellFormed THEN RevertECDSA
    ELSE IF Recover(HashTypedDataV4(StructHash(p)), sig) = arbitrator THEN ReturnsTrue
    ELSE ReturnsFalse

\* variant: the signer is compared with the constructor's arbitrator
VerifyRulingSignature_FirstArbitrator(p, sig) ==
    IF p.timestamp + FreshnessWindow > MaxUint THEN PanicOverflow
    ELSE IF ~(now <= p.timestamp + FreshnessWindow) THEN RevertExpired
    ELSE IF ~sig.wellFormed THEN RevertECDSA
    ELSE IF Recover(HashTypedDataV4(StructHash(p)), sig) = InitialArbitrator THEN ReturnsTrue
    ELSE ReturnsFalse

\* verifyRulingSignature: "true", "false", or the reason it reverts with
VerifyRulingSignature(p, sig) ==
    IF p.timestamp + FreshnessWindow > MaxUint THEN PanicOverflow
    ELSE IF ~(now <= p.timestamp + FreshnessWindow) THEN RevertExpired
    ELSE IF ~sig.wellFormed THEN RevertECDSA
    ELSE IF Recover(HashTypedDataV4(StructHash(p)), sig) = arbitrator THEN ReturnsTrue
    ELSE ReturnsFalse

\* variant: usedNonces is never consulted
SubmitOutcome_NoReplayCheck(p, sig) ==
    LET v == VerifyRulingSignature(p, sig) IN
    IF v \notin {ReturnsTrue, ReturnsFalse} THEN v
    ELSE IF v = ReturnsFalse THEN RevertBadSignature
    ELSE Accepted

\* variant: usedNonces is consulted before the signature is verified
SubmitOutcome_ReplayFirst(p, sig) ==
    LET v == VerifyRulingSignature(p, sig) IN
    IF ReplayKey(p.orderId, p.nonce) \in usedNonces THEN RevertNonceUsed
    ELSE IF v \notin {ReturnsTrue, ReturnsFalse} THEN v
    ELSE IF v = ReturnsFalse THEN RevertBadSignature
    ELSE Accepted

\* what submitRuling hands back to its caller
SubmitOutcome(p, sig) ==
    LET v == VerifyRulingSignature(p, sig) IN
    IF v \notin {ReturnsTrue, ReturnsFalse} THEN v
    ELSE IF v = ReturnsFalse THEN RevertBadSignature
    ELSE IF ReplayKey(p.orderId, p.nonce) \in usedNonces THEN RevertNonceUsed
    ELSE Accepted

\* the state the constructor leaves
Deployed ==
    /\ arbitrator = InitialArbitrator
    /\ usedNonces = {}
    /\ log = <<>>
    /\ now = T0
    /\ last = [op |-> "constructor", payload |-> NoPayload, sig |-> Malformed,
               caller |-> "none", newArbitrator |-> InitialArbitrator, result |-> Done]

NoCall == [op |-> "none"]

Null == "null"

\* useState(null) of data: the result of no request
NoData == [endpoint |-> Null, request |-> 0]

\* no component that uses the hook is rendered
NotRendered ==
    /\ data = NoData
    /\ loading = FALSE
    /\ error = Null
    /\ endpoint = Null
    /\ options = [skip |-> TRUE, requireAuth |-> TRUE]
    /\ token = FALSE
    /\ mounted = FALSE
    /\ requests = <<>>
    /\ effect = [request |-> 0, due |-> FALSE]

Init ==
    /\ Deployed
    /\ mempool = <<>>
    /\ seen = NoCall
    /\ NotRendered

\* variant: the nonce is marked used before the checks, and stays marked
SubmitRuling_MarksFirst(p, sig, caller) ==
    LET r == SubmitOutcome(p, sig) IN
    /\ last' = [op |-> "submitRuling", payload |-> p, sig |-> sig, caller |-> caller,
                newArbitrator |-> "none", result |-> r]
    /\ usedNonces' = usedNonces \cup {ReplayKey(p.orderId, p.nonce)}
    /\ IF r = Accepted
       THEN log' = Append(log, RulingSubmitted(p, caller))
       ELSE UNCHANGED log
    /\ UNCHANGED <<arbitrator, now>>

SubmitRuling(p, sig, caller) ==
    LET r == SubmitOutcome(p, sig) IN
    /\ last' = [op |-> "submitRuling", payload |-> p, sig |-> sig, caller |-> caller,
                newArbitrator |-> "none", result |-> r]
    /\ IF r = Accepted
       THEN /\ usedNonces' = usedNonces \cup {ReplayKey(p.orderId, p.nonce)}
            /\ log' = Append(log, RulingSubmitted(p, caller))
       ELSE UNCHANGED <<usedNonces, log>>
    /\ UNCHANGED <<arbitrator, now>>

\* variant: a successful verification consumes the nonce
VerifyCall_BurnsNonce(p, sig) ==
    LET v == VerifyRulingSignature(p, sig) IN
    /\ last' = [op |-> "verifyRulingSignature", payload |-> p, sig |-> sig, caller |-> "none",
                newArbitrator |-> "none", result |-> v]
    /\ usedNonces' = IF v = ReturnsTrue
                     THEN usedNonces \cup {ReplayKey(p.orderId, p.nonce)}
                     ELSE usedNonces
    /\ UNCHANGED <<arbitrator, log, now>>

\* an eth_call of the view function: nothing is written
VerifyCall(p, sig) ==
    /\ last' = [op |-> "verifyRulingSignature", payload |-> p, sig |-> sig, caller |-> "none",
                newArbitrator |-> "none", result |-> VerifyRulingSignature(p, sig)]
    /\ UNCHANGED <<arbitrator, usedNonces, log, now>>

\* variant: the rotation is announced but the stored identity stays
SetArbitrator_KeepsOld(a, caller) ==
    LET ok == caller = arbitrator IN
    /\ last' = [op |-> "setArbitrator", payload |-> NoPayload, sig |-> Malformed,
                caller |-> caller, newArbitrator |-> a,
                result |-> IF ok THEN Done ELSE RevertOnlyArbitrator]
    /\ IF ok
       THEN log' = Append(log, ArbitratorChanged(a))
       ELSE UNCHANGED log
    /\ UNCHANGED <<arbitrator, usedNonces, now>>

\* variant: a rotation starts the new arbitrator with an empty replay set
SetArbitrator_ClearsNonces(a, caller) ==
    LET ok == caller = arbitrator IN
    /\ last' = [op |-> "setArbitrator", payload |-> NoPayload, sig |-> Malformed,
                caller |-> caller, newArbitrator |-> a,
                result |-> IF ok THEN Done ELSE RevertOnlyArbitrator]
    /\ IF ok
       THEN /\ arbitrator' = a
            /\ usedNonces' = {}
            /\ log' = Append(log, ArbitratorChanged(a))
       ELSE UNCHANGED <<arbitrator, usedNonces, log>>
    /\ UNCHANGED now

\* variant: no onlyArbitrator modifier
SetArbitrator_NoGuard(a, caller) ==
    /\ last' = [op |-> "setArbitrator", payload |-> NoPayload, sig |-> Malformed,
                caller |-> caller, newArbitrator |-> a, result |-> Done]
    /\ arbitrator' = a
    /\ log' = Append(log, ArbitratorChanged(a))
    /\ UNCHANGED <<usedNonces, now>>

SetArbitrator(a, caller) ==
    LET ok == caller = arbitrator IN
    /\ last' = [op |-> "setArbitrator", payload |-> NoPayload, sig |-> Malformed,
                caller |-> caller, newArbitrator |-> a,
                result |-> IF ok THEN Done ELSE RevertOnlyArbitrator]
    /\ IF ok
       THEN /\ arbitrator' = a
            /\ log' = Append(log, ArbitratorChanged(a))
       ELSE UNCHANGED <<arbitrator, log>>
    /\ UNCHANGED <<usedNonces, now>>

\* a later block: block.timestamp grows
AdvanceClock(t) ==
    /\ t > now
    /\ now' = t
    /\ last' = [op |-> "block", payload |-> NoPayload, sig |-> Malformed, caller |-> "none",
                newArbitrator |-> "none", result |-> Done]
    /\ UNCHANGED <<arbitrator, usedNonces, log>>

\* the model stops appending to the log at MaxLog events
Bounded == Len(log') <= MaxLog /\ UNCHANGED <<mempool, seen, hook>>

Next ==
    \/ \E c \in Calls : \E caller \in Relayers : SubmitRuling(c[1], c[2], caller) /\ Bounded
    \/ \E c \in Calls : VerifyCall(c[1], c[2]) /\ Bounded
    \/ \E a \in Addresses : \E caller \in Identities : SetArbitrator(a, caller) /\ Bounded
    \/ \E t \in ClockTimes : AdvanceClock(t) /\ Bounded

Spec == Init /\ [][Next]_vars

(* ------------------------- vocabulary of the claims -------------------- *)

\* the step is a call of submitRuling / verifyRulingSignature / setArbitrator
SubmitStep == last'.op = "submitRuling"
VerifyStep == last'.op = "verifyRulingSignature"
RotateStep == last'.op = "setArbitrator"

\* issuedAt + 3600 does not fit the word: the freshness check itself panics
Overflows(p) == p.timestamp + FreshnessWindow > MaxUint
\* inside / outside the freshness window at the current block
Fresh(p) == ~Overflows(p) /\ now <= p.timestamp + FreshnessWindow
Expired(p) == ~Overflows(p) /\ p.timestamp + FreshnessWindow < now

\* sig was produced by identity id over payload p for this deployment
SignedBy(sig, id, p) ==
    sig.wellFormed /\ sig.signer = id /\ sig.digest = TypedDataHash(ThisDomain, StructHash(p))

\* sig was produced by a key holder, over whatever digest
ProducedBy(sig, id) == sig.wellFormed /\ sig.signer = id

\* positions of the RulingSubmitted events that carry p's (orderId, nonce)
AcceptedAt(p) ==
    {i \in 1..Len(log) : /\ log[i].event = "RulingSubmitted"
                         /\ log[i].orderId = p.orderId
                         /\ log[i].nonce = p.nonce}

PairsOf == [orderId : OrderIds, nonce : Nonces]

(* ------------------------------- claims -------------------------------- *)

\* C1: for every (orderId, nonce) pair at most one submitRuling carrying it is ever
\* accepted: the event log never holds two RulingSubmitted events of one pair.
C1_ReplayProtection == \A k \in PairsOf : Cardinality(AcceptedAt(k)) <= 1

\* a pair was accepted, and a later submit of the same pair with another ruling code
\* was turned down as a replay
C1_Witness ==
    /\ last.op = "submitRuling" /\ last.result = NonceAlreadyUsed
    /\ \E i \in AcceptedAt(last.payload) : log[i].ruling # last.payload.ruling

\* C2: an accepted submitRuling carries a signature that the arbitrator active in the
\* state the call runs in produced over exactly the submitted payload.
C2_AcceptedOnlyFromActive ==
    [][(SubmitStep /\ last'.result = Accepted) =>
          /\ Recover(HashTypedDataV4(StructHash(last'.payload)), last'.sig) = arbitrator
          /\ SignedBy(last'.sig, arbitrator, last'.payload)]_vars

\* after a rotation to B a ruling signed by B is accepted
C2_Witness ==
    /\ last.op = "submitRuling" /\ last.result = Accepted
    /\ arbitrator # InitialArbitrator
    /\ SignedBy(last.sig, arbitrator, last.payload)

\* C3 as stated: whenever the signature's producer is not the active arbitrator, verify
\* returns false and submit fails with InvalidSignature (payloads whose issuedAt + 3600
\* overflows the word set aside: every call on them panics).
C3_Original ==
    [][\A id \in Identities :
          (ProducedBy(last'.sig, id) /\ id # arbitrator /\ ~Overflows(last'.payload)) =>
              /\ VerifyStep => last'.result = ReturnsFalse
              /\ SubmitStep => last'.result = InvalidSignature]_vars

\* C3 amended: the same, for payloads inside the freshness window; a stale payload fails
\* with SignatureExpired whoever signed it, and neither case is ever accepted.
C3_WrongSignerRejected ==
    [][\A id \in Identities :
          (ProducedBy(last'.sig, id) /\ id # arbitrator) =>
              /\ (VerifyStep /\ Fresh(last'.payload)) => last'.result = ReturnsFalse
              /\ (SubmitStep /\ Fresh(last'.payload)) => last'.result = InvalidSignature
              /\ (SubmitStep /\ Expired(last'.payload)) => last'.result = SignatureExpired
              /\ VerifyStep => last'.result # ReturnsTrue
              /\ SubmitStep => last'.result # Accepted]_vars

\* a ruling signed by the identity that is not active, for a pair that is already
\* recorded, fails with InvalidSignature
C3_Witness ==
    /\ last.op = "submitRuling" /\ last.result = InvalidSignature
    /\ \E id \in Identities \ {arbitrator} : SignedBy(last.sig, id, last.payload)
    /\ ReplayKey(last.payload.orderId, last.payload.nonce) \in usedNonces

\* C4: a submitRuling whose payload has issuedAt + 3600 < now fails with SignatureExpired,
\* whatever its signature and whether or not its pair is recorded.
C4_ExpiredRejected ==
    [][(SubmitStep /\ last'.payload.timestamp + FreshnessWindow < now) =>
          last'.result = SignatureExpired]_vars

\* a stale ruling, signed by the active arbitrator, with an unused pair
C4_Witness ==
    /\ last.op = "submitRuling" /\ last.result = SignatureExpired
    /\ SignedBy(last.sig, arbitrator, last.payload)
    /\ ReplayKey(last.payload.orderId, last.payload.nonce) \notin usedNonces

\* C5: a submitRuling of a fresh payload signed by the active arbitrator is accepted when
\* no submit of its (orderId, nonce) was accepted before, and fails with NonceAlreadyUsed
\* when one was, whichever signature of the arbitrator it carries.
C5_AcceptedOnceThenReplay ==
    [][(/\ SubmitStep
        /\ Fresh(last'.payload)
        /\ SignedBy(last'.sig, arbitrator, last'.payload)) =>
          last'.result = (IF AcceptedAt(last'.payload) = {} THEN Accepted ELSE NonceAlreadyUsed)]_vars

\* the accepted ruling, submitted again under the arbitrator's second signature, is a replay
C5_Witness ==
    /\ last.op = "submitRuling" /\ last.result = NonceAlreadyUsed
    /\ last.sig = ValidSig(arbitrator, last.payload, 2)
    /\ \E i \in AcceptedAt(last.payload) :
          /\ log[i].ruling = last.payload.ruling
          /\ log[i].timestamp = last.payload.timestamp

\* the arbitrator that event number i replaced
ArbitratorBefore(i) ==
    LET earlier == {j \in 1..(i - 1) : log[j].event = "ArbitratorChanged"} IN
    IF earlier = {} THEN InitialArbitrator
    ELSE log[CHOOSE j \in earlier : \A m \in earlier : m <= j].newArbitrator

\* the identities some successful setArbitrator has replaced by another one so far
FormerArbitrators ==
    {ArbitratorBefore(i) : i \in {j \in 1..Len(log) : /\ log[j].event = "ArbitratorChanged"
                                                       /\ log[j].newArbitrator # ArbitratorBefore(j)}}

\* C6 as stated: once an identity has been replaced by another in a successful setArbitrator, no
\* later call accepts its signature over a payload that is still fresh: verify returns
\* false and submit is not accepted.
C6_Original ==
    [][\A id \in FormerArbitrators :
          (SignedBy(last'.sig, id, last'.payload) /\ Fresh(last'.payload)) =>
              /\ VerifyStep => last'.result = ReturnsFalse
              /\ SubmitStep => last'.result # Accepted]_vars

\* C6 amended: the same for every later call made while the replaced identity is not the
\* active arbitrator (a stale payload makes verify revert instead of returning false).
C6_RotatedOutRejected ==
    [][\A id \in FormerArbitrators \ {arbitrator} :
          SignedBy(last'.sig, id, last'.payload) =>
              /\ (VerifyStep /\ Fresh(last'.payload)) => last'.result = ReturnsFalse
              /\ VerifyStep => last'.result # ReturnsTrue
              /\ SubmitStep => last'.result # Accepted]_vars

\* after the rotation from A to B, verify turns down a fresh ruling signed by A
C6_Witness ==
    /\ last.op = "verifyRulingSignature" /\ last.result = ReturnsFalse
    /\ arbitrator # InitialArbitrator
    /\ InitialArbitrator \in FormerArbitrators
    /\ SignedBy(last.sig, InitialArbitrator, last.payload)
    /\ Fresh(last.payload)

\* C7: setArbitrator succeeds only for the active arbitrator as caller; for any other
\* caller it fails with Unauthorized and leaves arbitrator, usedNonces and the log as
\* they were.
C7_OnlyArbitratorRotates ==
    [][RotateStep =>
          /\ last'.result = Done => last'.caller = arbitrator
          /\ last'.caller # arbitrator =>
                /\ last'.result = Unauthorized
                /\ UNCHANGED <<arbitrator, usedNonces, log>>]_vars

\* the replaced arbitrator tries to rotate again and is turned down
C7_Witness ==
    /\ last.op = "setArbitrator" /\ last.result = Unauthorized
    /\ last.caller = InitialArbitrator
    /\ arbitrator # InitialArbitrator
    /\ last.newArbitrator # arbitrator

\* C8: an accepted submitRuling adds its own replay key, which was absent, and nothing
\* else to usedNonces and leaves the arbitrator alone; a failed one leaves usedNonces,
\* arbitrator and the log as they were.
C8_SubmitFrame ==
    [][SubmitStep =>
          LET key == ReplayKey(last'.payload.orderId, last'.payload.nonce) IN
          IF last'.result = Accepted
          THEN /\ key \notin usedNonces
               /\ usedNonces' = usedNonces \cup {key}
               /\ Cardinality(usedNonces') = Cardinality(usedNonces) + 1
               /\ arbitrator' = arbitrator
          ELSE UNCHANGED <<usedNonces, arbitrator, log>>]_vars

\* a second pair is accepted and the first one is still recorded
C8_Witness ==
    /\ last.op = "submitRuling" /\ last.result = Accepted
    /\ Cardinality(usedNonces) = 2
    /\ ReplayKey(last.payload.orderId, last.payload.nonce) \in usedNonces

\* C9: a verifyRulingSignature call changes neither usedNonces nor arbitrator nor the
\* log, so a submitRuling of the verified payload has the same outcome after it as
\* before it.
C9_VerifyIsPure ==
    [][VerifyStep =>
          /\ UNCHANGED <<usedNonces, arbitrator, log, now>>
          /\ SubmitOutcome(last.payload, last.sig)' = SubmitOutcome(last'.payload, last'.sig)]_vars

\* verify returned true for a ruling and its pair is still unused
C9_Witness ==
    /\ last.op = "verifyRulingSignature" /\ last.result = ReturnsTrue
    /\ ReplayKey(last.payload.orderId, last.payload.nonce) \notin usedNonces
    /\ SubmitOutcome(last.payload, last.sig) = Accepted

\* C10: the signature is verified before usedNonces is consulted: a submitRuling with a
\* stale payload fails with SignatureExpired and one with a fresh payload and a
\* signature that does not recover to the arbitrator fails with InvalidSignature, also
\* when the pair is recorded; no submitRuling that fails verification answers
\* NonceAlreadyUsed or inserts a key.
C10_VerifyBeforeReplay ==
    [][SubmitStep =>
          LET p == last'.payload
              sig == last'.sig
          IN /\ Expired(p) => last'.result = SignatureExpired
             /\ (/\ Fresh(p)
                 /\ sig.wellFormed
                 /\ ~SignedBy(sig, arbitrator, p)) => last'.result = InvalidSignature
             /\ ~(Fresh(p) /\ SignedBy(sig, arbitrator, p)) =>
                   /\ last'.result # NonceAlreadyUsed
                   /\ usedNonces' = usedNonces]_vars

\* a recorded pair, submitted again with a signature that is not the arbitrator's, fails
\* with InvalidSignature and not with NonceAlreadyUsed
C10_Witness ==
    /\ last.op = "submitRuling" /\ last.result = InvalidSignature
    /\ ~SignedBy(last.sig, arbitrator, last.payload)
    /\ AcceptedAt(last.payload) # {}

(* --------------- submitRuling transactions racing for one pair --------- *)

MaxRacers == 3

\* payloads that all name the base payload's (orderId, nonce) and issue time
RacePayloads ==
    {p \in Payloads : /\ p.orderId = BasePayload.orderId
                      /\ p.nonce = BasePayload.nonce
                      /\ p.timestamp = BasePayload.timestamp}

\* a transaction that was sent and not mined yet; the signature is the active
\* arbitrator's own, over the payload that is sent
RaceTxs ==
    {[payload |-> p, sig |-> ValidSig(InitialArbitrator, p, k), caller |-> c,
      result |-> "pending"] : p \in RacePayloads, k \in SigVariants, c \in Relayers}

InitRace ==
    /\ Deployed
    /\ seen = NoCall
    /\ NotRendered
    /\ \E n \in 2..MaxRacers : mempool \in [1..n -> RaceTxs]

\* variant: the check and the insert are two steps, and other transactions
\* may run between them
Mine_CheckThenInsert(i) ==
    LET tx == mempool[i] IN
    \/ /\ tx.result = "pending"
       /\ mempool' = [mempool EXCEPT ![i].result =
                         IF SubmitOutcome(tx.payload, tx.sig) = Accepted
                         THEN "checked" ELSE SubmitOutcome(tx.payload, tx.sig)]
       /\ UNCHANGED contract
    \/ /\ tx.result = "checked"
       /\ usedNonces' = usedNonces \cup {ReplayKey(tx.payload.orderId, tx.payload.nonce)}
       /\ log' = Append(log, RulingSubmitted(tx.payload, tx.caller))
       /\ last' = [op |-> "submitRuling", payload |-> tx.payload, sig |-> tx.sig,
                   caller |-> tx.caller, newArbitrator |-> "none", result |-> Accepted]
       /\ mempool' = [mempool EXCEPT ![i].result = Accepted]
       /\ UNCHANGED <<arbitrator, now>>

\* a pending transaction is mined: the whole call runs as one step, whatever
\* the order in which the transactions were sent
Mine(i) ==
    /\ mempool[i].result = "pending"
    /\ SubmitRuling(mempool[i].payload, mempool[i].sig, mempool[i].caller)
    /\ mempool' = [mempool EXCEPT ![i].result = last'.result]

NextRace ==
    \/ \E i \in DOMAIN mempool : Mine(i) /\ UNCHANGED <<seen, hook>>
    \/ \E t \in ClockTimes : AdvanceClock(t) /\ UNCHANGED <<mempool, seen, hook>>

SpecRace == InitRace /\ [][NextRace]_vars

\* the transactions of the race that were mined, and those with a given result
Mined == {i \in DOMAIN mempool : mempool[i].result \notin {"pending", "checked"}}
MinedWith(r) == {i \in DOMAIN mempool : mempool[i].result = r}

\* C11: of the submitRuling calls that race for one unused (orderId, nonce)
\* with valid signatures, in whatever order they are mined while the payload
\* is fresh, exactly one is Accepted and every other one fails with
\* NonceAlreadyUsed
C11_OneWinner ==
    (Fresh(BasePayload) /\ Mined # {}) =>
        /\ Cardinality(MinedWith(Accepted)) = 1
        /\ Cardinality(MinedWith(NonceAlreadyUsed)) = Cardinality(Mined) - 1

\* three racers, all mined, and the one sent last won
C11_Witness ==
    /\ Cardinality(DOMAIN mempool) >= 3
    /\ Mined = DOMAIN mempool
    /\ Fresh(BasePayload)
    /\ mempool[3].result = Accepted
    /\ mempool[1].result = NonceAlreadyUsed
    /\ mempool[2].result = NonceAlreadyUsed
    /\ mempool[1].sig # mempool[3].sig

(* ------------------------ the replay record over time ------------------ *)

\* C12: no step removes a key from usedNonces, a rotation leaves usedNonces
\* exactly as it was, and a pair that was accepted under any arbitrator is
\* never accepted again, whoever is the arbitrator now
C12_ReplayAppendOnly ==
    [][/\ usedNonces \subseteq usedNonces'
       /\ RotateStep => usedNonces' = usedNonces
       /\ (SubmitStep /\ AcceptedAt(last'.payload) # {}) => last'.result # Accepted]_vars

\* a pair accepted under A, then A hands over to B, then B's own fresh
\* signature for the same pair is refused as a replay
C12_Witness ==
    /\ Len(log) = 2
    /\ log[1].event = "RulingSubmitted"
    /\ log[1].orderId = last.payload.orderId
    /\ log[1].nonce = last.payload.nonce
    /\ log[2] = ArbitratorChanged("B")
    /\ arbitrator = "B"
    /\ last.op = "submitRuling"
    /\ SignedBy(last.sig, "B", last.payload)
    /\ Fresh(last.payload)
    /\ last.result = NonceAlreadyUsed
    /\ ReplayKey(last.payload.orderId, last.payload.nonce) \in usedNonces

(* ------------------------- malformed signatures ------------------------ *)

\* C13: for a signature that is not well-formed, on a fresh payload,
\* verifyRulingSignature returns false, submitRuling fails with
\* InvalidSignature, and the call leaves the contract's state as it was
C13_Original ==
    [][(~last'.sig.wellFormed /\ Fresh(last'.payload)) =>
          /\ VerifyStep => last'.result = ReturnsFalse
          /\ SubmitStep => last'.result = InvalidSignature
          /\ (VerifyStep \/ SubmitStep) =>
                UNCHANGED <<arbitrator, usedNonces, log, now>>]_vars

(* ------------------------------ the event log -------------------------- *)

\* the numbers an event carries as its arguments
EventNumbers(e) ==
    IF e.event = "RulingSubmitted"
    THEN {e.orderId, e.ruling, e.timestamp, e.nonce}
    ELSE {}

\* C14: the log only grows; an Accepted submitRuling appends one record with
\* the payload's orderId, ruling, issuedAt and nonce and with the time of
\* acceptance, a successful setArbitrator appends one record with the new
\* identity and the time of the rotation, and no other call appends a record
C14_Original ==
    [][LET succeeded == \/ SubmitStep /\ last'.result = Accepted
                        \/ RotateStep /\ last'.result = Done
           e == log'[Len(log')]
       IN  IF succeeded
           THEN /\ log' = Append(log, e)
                /\ SubmitStep =>
                      /\ e.orderId = last'.payload.orderId
                      /\ e.ruling = last'.payload.ruling
                      /\ e.timestamp = last'.payload.timestamp
                      /\ e.nonce = last'.payload.nonce
                /\ RotateStep => e.newArbitrator = last'.newArbitrator
                /\ now \in EventNumbers(e) \ {last'.payload.timestamp}
           ELSE log' = log]_vars

(* ---------------- signatures made for another domain ------------------- *)

\* domains that differ from this deployment's in one component
ForeignDomains ==
    {OtherDomain,
     [ThisDomain EXCEPT !.name = "OtherAdapter"],
     [ThisDomain EXCEPT !.version = "2"],
     [ThisDomain EXCEPT !.chainId = 2]}

DomainPayloads == {p \in Payloads : p.timestamp = BasePayload.timestamp}

\* each identity's signature for this deployment, and the first arbitrator's
\* signature over the same struct for each foreign domain
DomainSigsFor(p) ==
    {ValidSig(id, p, 1) : id \in Identities}
    \cup {Sign(InitialArbitrator, TypedDataHash(d, StructHash(p)), 1) : d \in ForeignDomains}

DomainCalls ==
    {c \in DomainPayloads \X UNION {DomainSigsFor(p) : p \in DomainPayloads} :
        c[2] \in DomainSigsFor(c[1])}

NextDomain ==
    \/ \E c \in DomainCalls : \E caller \in Relayers :
          SubmitRuling(c[1], c[2], caller) /\ Bounded
    \/ \E c \in DomainCalls : VerifyCall(c[1], c[2]) /\ Bounded
    \/ \E a \in Addresses : \E caller \in Identities : SetArbitrator(a, caller) /\ Bounded
    \/ \E t \in ClockTimes : AdvanceClock(t) /\ Bounded

SpecDomain == Init /\ [][NextDomain]_vars

\* sig is the active arbitrator's signature over payload p, made for a
\* foreign domain
ForeignSignedByActive(sig, p) ==
    /\ ProducedBy(sig, arbitrator)
    /\ \E d \in ForeignDomains : sig.digest = TypedDataHash(d, StructHash(p))

\* C15: a signature that the active arbitrator made over the payload for a
\* domain with another name, version, chain or verifying contract is never
\* answered with true by verifyRulingSignature nor Accepted by submitRuling;
\* the contract's own domain is fixed (ThisDomain has no variable in it)
C15_DomainSeparation ==
    [][((VerifyStep \/ SubmitStep) /\ ForeignSignedByActive(last'.sig, last'.payload)) =>
          last'.result \notin {ReturnsTrue, Accepted}]_vars

\* the active arbitrator's signature for another chain, over a fresh payload
\* with an unused pair, was submitted and refused as a bad signature
C15_Witness ==
    /\ last.op = "submitRuling"
    /\ ForeignSignedByActive(last.sig, last.payload)
    /\ last.sig.digest =
          TypedDataHash([ThisDomain EXCEPT !.chainId = 2], StructHash(last.payload))
    /\ Fresh(last.payload)
    /\ ReplayKey(last.payload.orderId, last.payload.nonce) \notin usedNonces
    /\ last.result = InvalidSignature

(* -------------------------- the freshness window ----------------------- *)

\* C16: an Accepted submitRuling has its issuedAt within 3600 of the block
\* time on both sides: not older than 3600 (exactly 3600 old is still fresh)
\* and not more than 3600 in the future
C16_Original ==
    [][(SubmitStep /\ last'.result = Accepted) =>
          /\ now <= last'.payload.timestamp + FreshnessWindow
          /\ last'.payload.timestamp <= now + FreshnessWindow]_vars

(* ----------------- a call compared with an earlier call ---------------- *)

\* anyone may send a transaction: a relayer or one of the identities
Callers == Relayers \cup Identities

\* the base ruling with each identity's signature and with bytes that are no
\* signature
ObservedCalls ==
    {<<BasePayload, sig>> : sig \in {ValidSig(id, BasePayload, 1) : id \in Identities}
                                    \cup {Malformed}}

\* what the call of this step was made with, what it answered, and the state
\* it ran in
Observation ==
    [op |-> last'.op, payload |-> last'.payload, sig |-> last'.sig,
     caller |-> last'.caller, result |-> last'.result,
     arbitrator |-> arbitrator, now |-> now, used |-> usedNonces, logLen |-> Len(log)]

\* the first call that is kept stays in seen
Remember ==
    /\ IF seen = NoCall THEN seen' = seen \/ seen' = Observation ELSE seen' = seen
    /\ Len(log') <= MaxLog
    /\ UNCHANGED <<mempool, hook>>

NextObserve ==
    \/ \E c \in ObservedCalls : \E caller \in Callers :
          SubmitRuling(c[1], c[2], caller) /\ Remember
    \/ \E c \in ObservedCalls : VerifyCall(c[1], c[2]) /\ Remember
    \/ \E a \in Identities : \E caller \in Identities : SetArbitrator(a, caller) /\ Bounded
    \/ \E t \in ClockTimes : AdvanceClock(t) /\ Bounded

SpecObserve == Init /\ [][NextObserve]_vars

\* the call of this step has the payload and signature of the call in seen
SameCallAsSeen(op) ==
    /\ seen.op = op
    /\ last'.op = op
    /\ seen.payload = last'.payload
    /\ seen.sig = last'.sig

\* C17: two verifyRulingSignature calls with the same payload and signature,
\* made while the same identity is the arbitrator and at the same block
\* time, answer the same, whatever was added to usedNonces in between
C17_VerifyDependsOnFour ==
    [][(SameCallAsSeen("verifyRulingSignature")
          /\ seen.arbitrator = arbitrator /\ seen.now = now) =>
          last'.result = seen.result]_vars

\* a verification answered true, then the payload's nonce was burned, and
\* the same verification at the same time answered true again
C17_Witness ==
    /\ seen.op = "verifyRulingSignature"
    /\ last.op = "verifyRulingSignature"
    /\ seen.payload = last.payload
    /\ seen.sig = last.sig
    /\ seen.arbitrator = arbitrator
    /\ seen.now = now
    /\ ReplayKey(last.payload.orderId, last.payload.nonce) \in usedNonces \ seen.used
    /\ seen.result = ReturnsTrue
    /\ last.result = ReturnsTrue

\* C18: a submitRuling that failed its verification (expired, wrong signer,
\* or bytes that are no signature), sent again with the same payload and
\* signature with no successful call and no block in between, fails with the
\* same error, and usedNonces has as many keys after the second call as it
\* had before the first
C18_RejectionIdempotent ==
    [][(SameCallAsSeen("submitRuling")
          /\ seen.result \notin {Accepted, NonceAlreadyUsed}
          /\ seen.logLen = Len(log) /\ seen.now = now) =>
          /\ last'.result = seen.result
          /\ Cardinality(usedNonces') = Cardinality(seen.used)]_vars

\* with one key burned, an expired payload was submitted by one caller and
\* then by another, and both got SignatureExpired
C18_Witness ==
    /\ seen.op = "submitRuling"
    /\ last.op = "submitRuling"
    /\ seen.payload = last.payload
    /\ seen.sig = last.sig
    /\ seen.caller # last.caller
    /\ seen.logLen = Len(log)
    /\ seen.now = now
    /\ Expired(last.payload)
    /\ seen.result = SignatureExpired
    /\ last.result = SignatureExpired
    /\ Cardinality(usedNonces) = 1
    /\ seen.used = usedNonces

(* ------------------------ the spec's concrete scenario ----------------- *)

MaxScenarioLog == 3

\* {orderId=0x01, FAVOR_BUYER, issuedAt=T, nonce=0x99} and the later ruling
\* for the same order with nonce=0xAA; T is the time of deployment
ScenarioFirst == [orderId |-> 1, ruling |-> 1, timestamp |-> T0, nonce |-> 153]
ScenarioSecond == [orderId |-> 1, ruling |-> 1, timestamp |-> T0, nonce |-> 170]

ScenarioCalls ==
    {<<ScenarioFirst, ValidSig("A", ScenarioFirst, 1)>>,
     <<ScenarioSecond, ValidSig("A", ScenarioSecond, 1)>>,
     <<ScenarioSecond, ValidSig("B", ScenarioSecond, 1)>>}

\* T+100, T+200, T+300 and T+4000
ScenarioTimes == {T0 + 100, T0 + 200, T0 + 300, T0 + 4000}

ScenarioBounded == Len(log') <= MaxScenarioLog /\ UNCHANGED <<mempool, hook>>

NextScenario ==
    \/ \E c \in ScenarioCalls : \E caller \in Relayers :
          /\ SubmitRuling(c[1], c[2], caller)
          /\ ScenarioBounded
          /\ IF seen = NoCall THEN seen' = seen \/ seen' = Observation ELSE seen' = seen
    \/ \E a \in Identities : \E caller \in Identities :
          SetArbitrator(a, caller) /\ ScenarioBounded /\ UNCHANGED seen
    \/ \E t \in ScenarioTimes : AdvanceClock(t) /\ ScenarioBounded /\ UNCHANGED seen

SpecScenario == Init /\ [][NextScenario]_vars

\* the step submits payload p with identity id's signature over it
ScenarioSubmit(p, id) ==
    /\ SubmitStep
    /\ last'.payload = p
    /\ last'.sig = ValidSig(id, p, 1)

FirstAccepted == <<RulingSubmitted(ScenarioFirst, "R")>>
ThenRotated == Append(FirstAccepted, ArbitratorChanged("B"))

\* C19: with A the arbitrator and nothing accepted yet, the first ruling
\* signed by A and submitted at T+100 is Accepted; resubmitted at T+200 it
\* fails with NonceAlreadyUsed; submitted at T+4000 it fails with
\* SignatureExpired; after A's rotation to B, at T+300, the second ruling
\* fails with InvalidSignature when signed by A and is Accepted when signed
\* by B
C19_Scenario ==
    [][/\ (ScenarioSubmit(ScenarioFirst, "A") /\ now = T0 + 100
             /\ arbitrator = "A" /\ log = <<>>) =>
             last'.result = Accepted
       /\ (ScenarioSubmit(ScenarioFirst, "A") /\ now = T0 + 200
             /\ arbitrator = "A" /\ log = FirstAccepted) =>
             last'.result = NonceAlreadyUsed
       /\ (ScenarioSubmit(ScenarioFirst, "A") /\ now = T0 + 4000) =>
             last'.result = SignatureExpired
       /\ (ScenarioSubmit(ScenarioSecond, "A") /\ now = T0 + 300
             /\ log = ThenRotated) =>
             last'.result = InvalidSignature
       /\ (ScenarioSubmit(ScenarioSecond, "B") /\ now = T0 + 300
             /\ log = ThenRotated) =>
             /\ last'.result = Accepted
             /\ log' = Append(ThenRotated, RulingSubmitted(ScenarioSecond, "R"))]_vars

\* the resubmission at T+200 was refused as a replay (kept in seen), A
\* rotated to B, and at T+300 the second ruling signed by B was accepted
C19_Witness ==
    /\ seen.op = "submitRuling"
    /\ seen.payload = ScenarioFirst
    /\ seen.now = T0 + 200
    /\ seen.result = NonceAlreadyUsed
    /\ seen.logLen = 1
    /\ log = Append(ThenRotated, RulingSubmitted(ScenarioSecond, "R"))
    /\ now = T0 + 300
    /\ arbitrator = "B"
    /\ last.op = "submitRuling"
    /\ last.sig = ValidSig("B", ScenarioSecond, 1)
    /\ last.result = Accepted

(* ----------------------- relayed and altered rulings ------------------- *)

\* the base ruling and one ruling altered in each field
RelayPayloads == {p \in Payloads : ~Overflows(p)}

\* each of them with the first arbitrator's signature over it, and with the
\* first arbitrator's signature over the base ruling
RelayCalls ==
    {<<p, ValidSig(InitialArbitrator, p, 1)>> : p \in RelayPayloads}
    \cup {<<p, ValidSig(InitialArbitrator, BasePayload, 1)>> : p \in RelayPayloads}

NextRelay ==
    \/ \E c \in RelayCalls : \E caller \in Callers :
          SubmitRuling(c[1], c[2], caller) /\ Bounded
    \/ \E c \in RelayCalls : VerifyCall(c[1], c[2]) /\ Bounded
    \/ \E a \in Identities : \E caller \in Identities : SetArbitrator(a, caller) /\ Bounded
    \/ \E t \in ClockTimes : AdvanceClock(t) /\ Bounded

SpecRelay == Init /\ [][NextRelay]_vars

\* the fields in which payload p differs from the base ruling
AlteredFields(p) ==
    {f \in {"orderId", "ruling", "timestamp", "nonce"} : p[f] # BasePayload[f]}

\* C20: the active arbitrator's signature over a fresh payload with an unused
\* pair is Accepted whoever sends the transaction, and the active
\* arbitrator's signature over the base ruling is neither verified nor
\* accepted with a payload that differs from the base ruling in its orderId,
\* ruling code, issuedAt or nonce
C20_BindsFieldsNotCaller ==
    [][/\ (SubmitStep /\ SignedBy(last'.sig, arbitrator, last'.payload)
             /\ Fresh(last'.payload)
             /\ ReplayKey(last'.payload.orderId, last'.payload.nonce) \notin usedNonces) =>
             last'.result = Accepted
       /\ ((SubmitStep \/ VerifyStep) /\ SignedBy(last'.sig, arbitrator, BasePayload)
             /\ AlteredFields(last'.payload) # {}) =>
             last'.result \notin {Accepted, ReturnsTrue}]_vars

\* A is the arbitrator; A's signature over the base ruling was relayed by B
\* and accepted, and then sent by a relayer with the ruling code changed and
\* refused
C20_Witness ==
    /\ arbitrator = "A"
    /\ log = <<RulingSubmitted(BasePayload, "B")>>
    /\ last.op = "submitRuling"
    /\ last.caller = "R"
    /\ last.sig = ValidSig("A", BasePayload, 1)
    /\ AlteredFields(last.payload) = {"ruling"}
    /\ Fresh(last.payload)
    /\ last.result = InvalidSignature

(* ------------------------ the contract stays usable -------------------- *)

\* C21: in every reachable state the arbitrator is an identity that holds a
\* key, so that it can sign a ruling and can send setArbitrator; no rotation
\* installs an address, such as the zero address, that no signature recovers
\* to and that no caller has
C21_Original == arbitrator \in Identities

(* ------------------------------- useApi -------------------------------- *)

MaxRequests == 2

Endpoints == {"/api/a", "/api/b"}

ErrUnauthorized == "Unauthorized"
ErrNetwork == "Failed to fetch"
ErrStatus == "Request failed with status"
ErrJson == "Unexpected token"

\* the state after the first render: the useState initialisers have run and
\* the effect of the mount is due
InitHook ==
    /\ Deployed
    /\ mempool = <<>>
    /\ seen = NoCall
    /\ data = NoData
    /\ options \in [skip : BOOLEAN, requireAuth : BOOLEAN]
    /\ loading = ~options.skip
    /\ error = Null
    /\ endpoint = "/api/a"
    /\ token \in BOOLEAN
    /\ mounted = TRUE
    /\ requests = <<>>
    /\ effect = [request |-> 0, due |-> TRUE]

\* what the server answers to request r
ResultOf(r) == [endpoint |-> requests[r].endpoint, request |-> r]

\* abortController.abort() of the controller whose signal request r got
Abort(reqs, r) == IF r = 0 THEN reqs ELSE [reqs EXCEPT ![r].aborted = TRUE]

\* fetchData(signal), up to its first await, after the requests became reqs;
\* held tells whether the effect keeps the controller
FetchData(reqs, held) ==
    IF ~token /\ options.requireAuth
    THEN /\ error' = ErrUnauthorized
         /\ loading' = FALSE
         /\ requests' = reqs
         /\ effect' = IF held THEN [request |-> 0, due |-> FALSE] ELSE effect
         /\ UNCHANGED data
    ELSE /\ Len(reqs) < MaxRequests
         /\ loading' = TRUE
         /\ error' = Null
         /\ requests' = Append(reqs, [endpoint |-> endpoint, stage |-> "fetch",
                                      aborted |-> FALSE])
         /\ effect' = IF held THEN [request |-> Len(reqs) + 1, due |-> FALSE] ELSE effect
         /\ UNCHANGED data

\* the parent renders the component with another endpoint: fetchData changes
Render(e) ==
    /\ mounted /\ ~effect.due
    /\ e # endpoint
    /\ endpoint' = e
    /\ effect' = [effect EXCEPT !.due = TRUE]
    /\ UNCHANGED <<data, loading, error, options, token, mounted, requests>>

\* the effect runs: the cleanup of the previous run, then the body
FlushEffect ==
    /\ mounted /\ effect.due
    /\ IF options.skip
       THEN /\ requests' = Abort(requests, effect.request)
            /\ effect' = [request |-> 0, due |-> FALSE]
            /\ UNCHANGED <<data, loading, error>>
       ELSE FetchData(Abort(requests, effect.request), TRUE)
    /\ UNCHANGED <<endpoint, options, token, mounted>>

\* refetch(): a controller of its own, which nothing aborts
Refetch ==
    /\ mounted
    /\ FetchData(requests, FALSE)
    /\ UNCHANGED <<endpoint, options, token, mounted>>

\* the component unmounts: the cleanup of the effect runs
Unmount ==
    /\ mounted
    /\ mounted' = FALSE
    /\ requests' = Abort(requests, effect.request)
    /\ effect' = [request |-> 0, due |-> FALSE]
    /\ UNCHANGED <<data, loading, error, endpoint, options, token>>

\* the user signs in or out: getToken() changes
SetToken(t) ==
    /\ t # token
    /\ token' = t
    /\ UNCHANGED <<data, loading, error, endpoint, options, mounted, requests, effect>>

\* request r is over: what its continuation wrote; the finally block runs on
\* every path
Settle(r, newData, newError) ==
    /\ requests' = [requests EXCEPT ![r].stage = "done"]
    /\ data' = newData
    /\ error' = newError
    /\ loading' = FALSE
    /\ UNCHANGED <<endpoint, options, token, mounted, effect>>

\* await fetch(...) resolves with the response headers; ok is res.ok
FetchResolves(r, ok) ==
    /\ requests[r].stage = "fetch"
    /\ ~requests[r].aborted
    /\ requests' = [requests EXCEPT ![r].stage = IF ok THEN "body" ELSE "errorBody"]
    /\ UNCHANGED <<data, loading, error, endpoint, options, token, mounted, effect>>

\* await fetch(...) rejects: with AbortError when the signal was aborted,
\* otherwise with a network error
FetchRejects(r) ==
    /\ requests[r].stage = "fetch"
    /\ IF requests[r].aborted
       THEN Settle(r, data, error)
       ELSE Settle(r, data, ErrNetwork)

\* await res.json() of an ok response resolves
BodyResolves(r) ==
    /\ requests[r].stage = "body"
    /\ ~requests[r].aborted
    /\ Settle(r, ResultOf(r), error)

\* await res.json() of an ok response rejects: with AbortError when the
\* signal was aborted, otherwise because the body is no JSON
BodyRejects(r) ==
    /\ requests[r].stage = "body"
    /\ IF requests[r].aborted
       THEN Settle(r, data, error)
       ELSE Settle(r, data, ErrJson)

\* res.json().catch(() => ({})) of a response that is not ok settles; a
\* rejection, of whatever name, is replaced by {} and the Error is thrown
ErrorBodySettles(r) ==
    /\ requests[r].stage = "errorBody"
    /\ Settle(r, data, ErrStatus)

NextHook ==
    \/ \E e \in Endpoints : Render(e) /\ UNCHANGED <<contract, mempool, seen>>
    \/ FlushEffect /\ UNCHANGED <<contract, mempool, seen>>
    \/ Refetch /\ UNCHANGED <<contract, mempool, seen>>
    \/ Unmount /\ UNCHANGED <<contract, mempool, seen>>
    \/ \E t \in BOOLEAN : SetToken(t) /\ UNCHANGED <<contract, mempool, seen>>
    \/ \E r \in DOMAIN requests : \E ok \in BOOLEAN :
          FetchResolves(r, ok) /\ UNCHANGED <<contract, mempool, seen>>
    \/ \E r \in DOMAIN requests : FetchRejects(r) /\ UNCHANGED <<contract, mempool, seen>>
    \/ \E r \in DOMAIN requests : BodyResolves(r) /\ UNCHANGED <<contract, mempool, seen>>
    \/ \E r \in DOMAIN requests : BodyRejects(r) /\ UNCHANGED <<contract, mempool, seen>>
    \/ \E r \in DOMAIN requests : ErrorBodySettles(r) /\ UNCHANGED <<contract, mempool, seen>>

SpecHook == InitHook /\ [][NextHook]_vars

\* the requests whose continuation runs to its end in this step
Completing == {r \in DOMAIN requests : requests[r].stage # "done" /\ requests'[r].stage = "done"}

\* the effect of a mounted component that does not skip runs fetchData in
\* this step
EffectFetches == mounted /\ effect.due /\ ~effect'.due /\ mounted' /\ ~options.skip

\* C22: the completion of a request whose signal was aborted sets neither
\* data nor error; and while getToken() gives no token and requireAuth is not
\* false, no step starts a request, and a run of fetchData by the effect sets
\* error to "Unauthorized" and loading to false
C22_Original ==
    [][/\ \A r \in Completing : requests[r].aborted => (data' = data /\ error' = error)
       /\ (~token /\ options.requireAuth) => Len(requests') = Len(requests)
       /\ (EffectFetches /\ ~token /\ options.requireAuth) =>
             (error' = ErrUnauthorized /\ loading' = FALSE)]_vars

\* the requests that are still awaited and whose signal was not aborted
InFlight == {r \in DOMAIN requests : requests[r].stage # "done" /\ ~requests[r].aborted}

\* C23: after every step loading is true while a request that was not
\* aborted is in flight, and a request that completes while a request
\* started after it is in flight neither sets loading to false nor sets data
C23_Original ==
    [][/\ InFlight' # {} => loading'
       /\ \A r \in Completing :
             (\E n \in InFlight : n > r) => (data' = data /\ loading' = loading)]_vars

====
